---- MODULE Spec2Model ----
(***************************************************************************)
(* Model of the orbital propagation service (stellarops orbital_service):  *)
(* the core of propagator.rs (propagate, propagate_trajectory and          *)
(* calculate_visibility_passes), and the request handlers of main.rs       *)
(* (HTTP) and service.rs (gRPC) that call it.  The single-point handlers   *)
(* are served as concurrent tasks that share the metrics and the lock      *)
(* around them.                                                            *)
(*                                                                         *)
(* The sgp4 crate is an external library: its three entry points are       *)
(* modelled by their outcomes.  Elements::from_tle and                     *)
(* Constants::from_elements depend on the TLE only, so their outcome is a  *)
(* field of the abstract TLE.  Constants::propagate depends on the model   *)
(* and the time; its outcome at a timestamp is chosen when the timestamp   *)
(* is first sampled and remembered in ephemeris, so that a second sample   *)
(* of the same timestamp sees the same outcome.                            *)
(*                                                                         *)
(* Timestamps are mathematical integers: the requests of the model stay    *)
(* far from the limits of i64.  Angles are quantised to NSect sectors of   *)
(* the equatorial plane.                                                   *)
(***************************************************************************)
EXTENDS Integers, Sequences, FiniteSets, TLC

\* ------------------------------------------------------------------------
\* Bounds of the model
\* ------------------------------------------------------------------------

\* Longest short trajectory window, in seconds (end - start).
MaxSpan == 3

\* Longest visibility window, in grid steps.
MaxGrid == 4

\* Largest batch.
MaxBatch == 3

\* A sweep is followed for at most this many samples; every short window
\* completes within it.
MaxAttempts == MaxSpan + 2

\* Number of single-point requests served at the same time.
NProcs == 2

\* Number of core calls made one after the other.
MaxCalls == 3

\* Largest component of a station-to-satellite vector, in half kilometres.
MaxComp == 2

\* ------------------------------------------------------------------------
\* Program constants
\* ------------------------------------------------------------------------

\* TLE line length demanded by the handlers and by Elements::from_tle.
TleLineLen == 69

\* service.rs: let max_points = 10000;
max_points == 10000

\* propagator.rs: let step_seconds: i64 = 30;
vis_step_seconds == 30

\* Number of angular sectors (quantisation of angles).
NSect == 4

\* main.rs: now - (365 * 24 * 3600)
OneYear == 365 * 24 * 3600

\* ------------------------------------------------------------------------
\* Inputs
\* ------------------------------------------------------------------------

\* An abstract TLE: the lengths of its two lines, whether its fields and
\* checksums parse, and whether its elements give a physical model.
ValidTle     == [len1 |-> 69, len2 |-> 69, wellformed |-> TRUE,  physical |-> TRUE]
UnphysicalTle == [len1 |-> 69, len2 |-> 69, wellformed |-> TRUE,  physical |-> FALSE]
MalformedTle == [len1 |-> 69, len2 |-> 69, wellformed |-> FALSE, physical |-> TRUE]
ShortTle     == [len1 |-> 68, len2 |-> 69, wellformed |-> TRUE,  physical |-> TRUE]
LongTle      == [len1 |-> 69, len2 |-> 70, wellformed |-> TRUE,  physical |-> TRUE]

TLEs == {ValidTle, UnphysicalTle, MalformedTle, ShortTle, LongTle}

NoTle == [len1 |-> 0, len2 |-> 0, wellformed |-> FALSE, physical |-> FALSE]

\* A TLE whose first line is the empty string.
EmptyLineTle == [len1 |-> 0, len2 |-> 69, wellformed |-> FALSE, physical |-> FALSE]

\* The TLEs of the gRPC single-point requests: the absent one, one with an
\* empty line, one with a short line, and the two that parse.
PositionTles == {NoTle, EmptyLineTle, ShortTle, UnphysicalTle, ValidTle}

\* The tasks that serve single-point requests.
Procs == 1..NProcs

\* Readings of the clock (chrono::Utc::now().timestamp()).
Nows == {OneYear + 6, OneYear + 7}

\* Timestamps of the single-point requests: exactly one year before one of
\* the readings of the clock, so a second too old for the later reading or a
\* second inside the year of the earlier one.
RequestTimes == {6, 7}

Starts == {0, 7}

Steps == {-1, 0, 1, 2, 3}

LongSpans == {9999, 10000, 20000}

\* Trajectory windows: one empty, the short ones, and three long ones around
\* the limit of max_points.
TrajEnds(s) == {s - 1} \cup {s + d : d \in 0..MaxSpan} \cup {s + d : d \in LongSpans}

\* The propagate requests a batch is made of.
BatchRequests ==
    { [satellite_id |-> "A", tle |-> ValidTle,      timestamp_unix |-> 0],
      [satellite_id |-> "B", tle |-> ValidTle,      timestamp_unix |-> 0],
      [satellite_id |-> "B", tle |-> ValidTle,      timestamp_unix |-> 7],
      [satellite_id |-> "A", tle |-> UnphysicalTle, timestamp_unix |-> 0],
      [satellite_id |-> "B", tle |-> MalformedTle,  timestamp_unix |-> 7],
      [satellite_id |-> "A", tle |-> ShortTle,      timestamp_unix |-> 0],
      [satellite_id |-> "B", tle |-> LongTle,       timestamp_unix |-> 7] }

\* The batches of at most MaxBatch requests.
Batches == UNION {[1..n -> BatchRequests] : n \in 0..MaxBatch}

\* ECI positions of the satellite: the sector it is in.
Positions == 0..(NSect - 1)

\* Outcomes of Constants::propagate.
PropagateOutcomes ==
    {[ok |-> TRUE, position |-> p] : p \in Positions}
        \cup {[ok |-> FALSE, position |-> 0]}

\* ------------------------------------------------------------------------
\* State
\* ------------------------------------------------------------------------

VARIABLES
    pc,            \* position of the running call
    endpoint,      \* who called the core: "core", "http" or "grpc"
    tle,           \* the request's TLE
    start_unix,
    end_unix,
    step_seconds,
    timestamp,     \* time cursor of the sweep
    results,       \* propagate_trajectory: Vec<(i64, PropagationResult)>
    attempts,      \* number of calls of Constants::propagate in this sweep
    ephemeris,     \* outcome of Constants::propagate per sampled timestamp
    ret,           \* value returned by the core
    response,      \* response of the handler
    core_calls,    \* number of times a handler invoked the core sweep
    metrics,       \* the counters the handlers update
    \* calculate_visibility_passes
    ground_station,
    in_pass,
    current_pass_start,
    current_pass_start_azimuth,
    max_elevation,
    tca_timestamp,
    passes,
    \* batch_propagate_handler
    batch_req,
    batch_index,
    batch_results,
    success_count,
    error_count,
    batch_response,
    \* the concurrent single-point handlers
    handlers,      \* per task: its position, request, result and response
    lock,          \* Arc<RwLock<AppState>>: the writer and the readers
    \* repeated calls of the core
    entry,         \* the core entry point of the running call
    history,       \* the completed core calls: entry point, arguments, result
    \* the look angles of one station-to-satellite vector
    range_sez,     \* the vector in the station's south-east-zenith frame
    look           \* what the computation of lines 317-330 makes of it

visVars == <<ground_station, in_pass, current_pass_start,
             current_pass_start_azimuth, max_elevation, tca_timestamp, passes>>

batchVars == <<batch_req, batch_index, batch_results, success_count, error_count,
               batch_response>>

lookVars == <<range_sez, look>>

taskVars == <<handlers, lock, history, lookVars>>

vars == <<pc, endpoint, tle, start_unix, end_unix, step_seconds, timestamp,
          results, attempts, ephemeris, ret, response, core_calls, metrics,
          visVars, batchVars, taskVars, entry>>

NoRet == [kind |-> "none", error |-> "", value |-> <<>>]
NoResponse == [kind |-> "none", status |-> "", success |-> FALSE, error |-> "", points |-> <<>>]

\* AppState.metrics and the Prometheus counters of metrics.rs.
NoMetrics ==
    [propagation_count |-> 0, error_count |-> 0,
     grpc_success |-> 0, grpc_error |-> 0,
     trajectory_points_success |-> 0, trajectory_points_error |-> 0]

NoBatchResponse ==
    [kind |-> "none", results |-> <<>>, total_count |-> 0, success_count |-> 0,
     error_count |-> 0]

NoStation == [longitude_sect |-> 0, min_elevation_deg |-> 0]

NoRequest == [satellite_id |-> "", tle |-> NoTle, timestamp_unix |-> 0]

\* A task before its request arrives.  core_calls and metric_updates count
\* the calls of propagator::propagate and the updates of the metrics made by
\* the task.
NoHandler ==
    [pc |-> "idle", kind |-> "none", req |-> NoRequest, now |-> 0,
     result |-> NoRet, response |-> NoResponse, core_calls |-> 0,
     metric_updates |-> 0]

\* RwLock::new(AppState::new()): nobody holds the lock.
NoLock == [writer |-> 0, readers |-> {}]

\* A length or an angle of the look-angle computation: a number of units (half
\* kilometres, degrees) plus eps times an amount far below the spacing of
\* the doubles near 180 and 360 (some 1e-13 of a unit).
Exact(n) == [h |-> n, eps |-> 0]

NoRange == [s |-> Exact(0), e |-> 0, z |-> 0]

NoLook ==
    [elevation_nan |-> FALSE, elevation_deg |-> 0, azimuth_deg |-> Exact(0),
     divided |-> FALSE]

Init ==
    /\ pc = "idle"
    /\ endpoint = "none"
    /\ tle = NoTle
    /\ start_unix = 0
    /\ end_unix = 0
    /\ step_seconds = 0
    /\ timestamp = 0
    /\ results = <<>>
    /\ attempts = 0
    /\ ephemeris = <<>>
    /\ ret = NoRet
    /\ response = NoResponse
    /\ core_calls = 0
    /\ metrics = NoMetrics
    /\ ground_station = NoStation
    /\ in_pass = FALSE
    /\ current_pass_start = 0
    /\ current_pass_start_azimuth = 0
    /\ max_elevation = 0
    /\ tca_timestamp = 0
    /\ passes = <<>>
    /\ batch_req = <<>>
    /\ batch_index = 0
    /\ batch_results = <<>>
    /\ success_count = 0
    /\ error_count = 0
    /\ batch_response = NoBatchResponse
    /\ handlers = [p \in Procs |-> NoHandler]
    /\ lock = NoLock
    /\ entry = "none"
    /\ history = <<>>
    /\ range_sez = NoRange
    /\ look = NoLook

\* ------------------------------------------------------------------------
\* sgp4 crate
\* ------------------------------------------------------------------------

\* A parser that checks the lengths of the lines only.
from_tle_lengths_only(t) == t.len1 = TleLineLen /\ t.len2 = TleLineLen

\* Elements::from_tle(None, line1, line2).is_ok()
from_tle(t) == t.len1 = TleLineLen /\ t.len2 = TleLineLen /\ t.wellformed

\* Constants::from_elements(&elements).is_ok()
from_elements(t) == t.physical

\* A propagator whose outcome at a time is not a function of the model and
\* the time.
propagate_at_fresh(t, ts) == PropagateOutcomes

\* The outcomes Constants::propagate may give for the model of TLE t at time
\* ts: the remembered one when it was sampled before.
propagate_at(t, ts) ==
    IF <<t, ts>> \in DOMAIN ephemeris THEN {ephemeris[<<t, ts>>]}
                                       ELSE PropagateOutcomes

\* The outcome that was sampled for the running sweep at time ts.
Sampled(ts) == <<tle, ts>> \in DOMAIN ephemeris
Outcome(ts) == ephemeris[<<tle, ts>>]

Ok(v) == [kind |-> "Ok", error |-> "", value |-> v]
Err(e) == [kind |-> "Err", error |-> e, value |-> <<>>]

\* ------------------------------------------------------------------------
\* propagator.rs: propagate_trajectory
\* ------------------------------------------------------------------------

\* Lines 81-93: parse, initialise, and enter the loop; the caller ep resumes
\* at pc "respond" (a handler) or "done" (a direct call).
propagate_trajectory_enter(t, s, e, h, ep) ==
    LET after == IF ep = "core" THEN "done" ELSE "respond" IN
    /\ tle' = t
    /\ start_unix' = s
    /\ end_unix' = e
    /\ step_seconds' = h
    /\ endpoint' = ep
    /\ attempts' = 0
    /\ entry' = "propagate_trajectory"
    /\ UNCHANGED ephemeris
    /\ IF ~from_tle(t)
         THEN /\ ret' = Err("TleParseError")
              /\ pc' = after
              /\ UNCHANGED <<timestamp, results>>
         ELSE IF ~from_elements(t)
         THEN /\ ret' = Err("PropagatorError")
              /\ pc' = after
              /\ UNCHANGED <<timestamp, results>>
         ELSE /\ results' = <<>>
              /\ timestamp' = s
              /\ pc' = "traj_loop"
              /\ ret' = NoRet

\* A direct call of the core.
propagate_trajectory ==
    /\ pc = "idle"
    /\ \E t \in TLEs, s \in Starts, h \in Steps :
         \E e \in TrajEnds(s) :
            propagate_trajectory_enter(t, s, e, h, "core")
    /\ UNCHANGED <<response, core_calls, metrics>>
    /\ UNCHANGED <<visVars, batchVars, taskVars>>

\* The loop condition with the end of the window excluded.
trajectory_continue_strict(ts, e) == ts < e

\* Line 94: the loop condition.
trajectory_continue(ts, e) == ts <= e

\* Line 114: the advance of the time cursor.
trajectory_advance(ts, h) == ts + h

\* An iteration that keeps a failed sample.
trajectory_push_always(res, ts, o) ==
    Append(res, [timestamp |-> ts, position |-> o.position])

\* What one iteration appends to results (lines 97-112).
trajectory_push(res, ts, o) ==
    IF o.ok THEN Append(res, [timestamp |-> ts, position |-> o.position])
            ELSE res

\* Lines 94-115: one iteration of the loop.
propagate_trajectory_step ==
    /\ pc = "traj_loop"
    /\ trajectory_continue(timestamp, end_unix)
    /\ attempts < MaxAttempts
    /\ \E o \in propagate_at(tle, timestamp) :
         /\ ephemeris' = (<<tle, timestamp>> :> o) @@ ephemeris
         /\ results' = trajectory_push(results, timestamp, o)
    /\ attempts' = attempts + 1
    /\ timestamp' = trajectory_advance(timestamp, step_seconds)
    /\ UNCHANGED <<pc, endpoint, tle, start_unix, end_unix, step_seconds,
                   ret, response, core_calls, metrics>>
    /\ UNCHANGED <<visVars, batchVars, taskVars, entry>>

\* Line 117: the loop is over.
propagate_trajectory_return ==
    /\ pc = "traj_loop"
    /\ ~trajectory_continue(timestamp, end_unix)
    /\ ret' = Ok(results)
    /\ pc' = IF endpoint = "core" THEN "done" ELSE "respond"
    /\ UNCHANGED <<endpoint, tle, start_unix, end_unix, step_seconds,
                   timestamp, results, attempts, ephemeris, response, core_calls,
                   metrics>>
    /\ UNCHANGED <<visVars, batchVars, taskVars, entry>>

\* ------------------------------------------------------------------------
\* main.rs: trajectory_handler (HTTP /api/trajectory)
\* ------------------------------------------------------------------------

HttpResponse(st, ok, e, pts) ==
    [kind |-> "http", status |-> st, success |-> ok, error |-> e, points |-> pts]

\* Lines 382-414: the validations, then the call of the core.
trajectory_handler ==
    /\ pc = "idle"
    /\ \E t \in TLEs, s \in Starts, h \in Steps :
         \E e \in TrajEnds(s) :
            IF t.len1 # TleLineLen \/ t.len2 # TleLineLen
              THEN /\ response' = HttpResponse("BAD_REQUEST", FALSE,
                                     "TLE lines must be exactly 69 characters", <<>>)
                   /\ pc' = "done"
                   /\ tle' = t /\ start_unix' = s /\ end_unix' = e
                   /\ step_seconds' = h /\ endpoint' = "http"
                   /\ UNCHANGED <<timestamp, results, attempts, ephemeris, ret,
                                  core_calls, entry>>
              ELSE IF e <= s
              THEN /\ response' = HttpResponse("BAD_REQUEST", FALSE,
                                     "End time must be after start time", <<>>)
                   /\ pc' = "done"
                   /\ tle' = t /\ start_unix' = s /\ end_unix' = e
                   /\ step_seconds' = h /\ endpoint' = "http"
                   /\ UNCHANGED <<timestamp, results, attempts, ephemeris, ret,
                                  core_calls, entry>>
              ELSE /\ propagate_trajectory_enter(t, s, e, h, "http")
                   /\ core_calls' = core_calls + 1
                   /\ UNCHANGED response
    /\ UNCHANGED metrics
    /\ UNCHANGED <<visVars, batchVars, taskVars>>

\* Lines 415-467: the two arms of the match on the core's result.
trajectory_handler_respond ==
    /\ pc = "respond"
    /\ endpoint = "http"
    /\ IF ret.kind = "Ok"
         THEN /\ metrics' = [metrics EXCEPT !.propagation_count = @ + 1]
              /\ response' = HttpResponse("OK", TRUE, "", ret.value)
         ELSE /\ metrics' = [metrics EXCEPT !.error_count = @ + 1]
              /\ response' = HttpResponse("BAD_REQUEST", FALSE, ret.error, <<>>)
    /\ pc' = "done"
    /\ UNCHANGED <<endpoint, tle, start_unix, end_unix, step_seconds, timestamp,
                   results, attempts, ephemeris, ret, core_calls>>
    /\ UNCHANGED <<visVars, batchVars, taskVars, entry>>

\* ------------------------------------------------------------------------
\* service.rs: OrbitalServiceImpl::propagate_trajectory (gRPC)
\* ------------------------------------------------------------------------

GrpcStatus(code, msg) ==
    [kind |-> "grpc", status |-> code, success |-> FALSE, error |-> msg, points |-> <<>>]

GrpcResponse(ok, e, pts) ==
    [kind |-> "grpc", status |-> "OK", success |-> ok, error |-> e, points |-> pts]

\* Line 219: (end - start) / step + 1, evaluated for end > start, step > 0,
\* where the truncating division of Rust is the floor.
num_points(s, e, h) == (e - s) \div h + 1

\* Lines 205-233: the validations, then the call of the core.  The request's
\* tle is optional: NoTle is the absent one.
grpc_propagate_trajectory ==
    /\ pc = "idle"
    /\ \E t \in TLEs \cup {NoTle}, s \in Starts, h \in Steps :
         \E e \in TrajEnds(s) :
            LET reject(msg) ==
                    /\ response' = GrpcStatus("INVALID_ARGUMENT", msg)
                    /\ pc' = "done"
                    /\ tle' = t /\ start_unix' = s /\ end_unix' = e
                    /\ step_seconds' = h /\ endpoint' = "grpc"
                    /\ UNCHANGED <<timestamp, results, attempts, ephemeris, ret,
                                   core_calls, entry>>
            IN  IF t = NoTle
                  THEN reject("TLE is required")
                ELSE IF h <= 0
                  THEN reject("step_seconds must be positive")
                ELSE IF e <= s
                  THEN reject("end_timestamp must be after start_timestamp")
                ELSE IF num_points(s, e, h) > max_points
                  THEN reject("Trajectory would have too many points")
                ELSE /\ propagate_trajectory_enter(t, s, e, h, "grpc")
                     /\ core_calls' = core_calls + 1
                     /\ UNCHANGED response
    /\ UNCHANGED metrics
    /\ UNCHANGED <<visVars, batchVars, taskVars>>

\* metrics.rs: MetricsState::record_trajectory
record_trajectory(m, points, success) ==
    IF success
      THEN [m EXCEPT !.grpc_success = @ + 1,
                     !.trajectory_points_success = @ + points]
      ELSE [m EXCEPT !.grpc_error = @ + 1,
                     !.trajectory_points_error = @ + points]

\* Lines 234-294: the two arms of the match on the core's result.
grpc_propagate_trajectory_respond ==
    /\ pc = "respond"
    /\ endpoint = "grpc"
    /\ IF ret.kind = "Ok"
         THEN /\ metrics' = record_trajectory(metrics, Len(ret.value), TRUE)
              /\ response' = GrpcResponse(TRUE, "", ret.value)
         ELSE /\ metrics' = record_trajectory(metrics, 0, FALSE)
              /\ response' = GrpcResponse(FALSE, ret.error, <<>>)
    /\ pc' = "done"
    /\ UNCHANGED <<endpoint, tle, start_unix, end_unix, step_seconds, timestamp,
                   results, attempts, ephemeris, ret, core_calls>>
    /\ UNCHANGED <<visVars, batchVars, taskVars, entry>>

\* ------------------------------------------------------------------------
\* propagator.rs: look angles
\* ------------------------------------------------------------------------

\* Ground stations: the sector of their longitude and their threshold.
GroundStations ==
    { [longitude_sect |-> 0, min_elevation_deg |-> 10],
      [longitude_sect |-> 1, min_elevation_deg |-> 30] }

\* Visibility windows: one empty, and the ones of 0..MaxGrid grid steps,
\* ending on the grid or 11 seconds after it.
VisEnds(s) ==
    {s - 1} \cup {s + vis_step_seconds * k + off : k \in 0..MaxGrid, off \in {0, 11}}

\* calculate_gmst: the rotation of the Earth at time ts, in sectors; the
\* Earth of the model turns by one sector in the time of one grid step.
calculate_gmst(ts) == (ts \div vis_step_seconds) % NSect

\* calculate_look_angles: the satellite's sector is rotated by -GMST into the
\* Earth-fixed frame and taken relative to the station; the elevation falls
\* with the angular distance to the station, the azimuth is 0 overhead, 90
\* to the east, 180 opposite, -90 to the west, and a negative azimuth is
\* shifted by 360.
calculate_look_angles(sat_eci, gs, ts) ==
    LET sat_ecef == (sat_eci - calculate_gmst(ts)) % NSect
        d == (sat_ecef - gs.longitude_sect) % NSect
        dist == IF d <= NSect - d THEN d ELSE NSect - d
        elevation_deg == 60 - 50 * dist
        azimuth_raw == IF d = 0 THEN 0
                       ELSE IF 2 * d < NSect THEN 90
                       ELSE IF 2 * d = NSect THEN 180
                       ELSE -90
        azimuth_deg == IF azimuth_raw < 0 THEN azimuth_raw + 360 ELSE azimuth_raw
    IN  [elevation |-> elevation_deg, azimuth |-> azimuth_deg]

\* The station-to-satellite vectors of lines 314-316: south, east and zenith
\* components in half kilometres, the south one with a part too small to
\* count next to a half kilometre.
Lengths == {[h |-> n, eps |-> d] : n \in -MaxComp..MaxComp, d \in -1..1}

RangeVectors == [s : Lengths, e : -MaxComp..MaxComp, z : -MaxComp..MaxComp]

sign(n) == IF n > 0 THEN 1 ELSE IF n < 0 THEN -1 ELSE 0

\* range * range of line 318, in half kilometres squared.
range_squared(v) == v.s.h * v.s.h + v.e * v.e + v.z * v.z

\* range is 0.0 only for the zero vector: the square of the small part
\* underflows next to anything else and is all there is otherwise.
range_is_zero(v) == range_squared(v) = 0 /\ v.s.eps = 0

\* f64 addition of 360.0 (line 328): the doubles next to 360 are some 5e-14
\* apart, so the small part of the sum is rounded away.
add_360(a) == Exact(a.h + 360)

\* Lines 318-330 of calculate_look_angles on the vector (s, e, z). The
\* elevation is asin(z / range), a division done for every vector: NaN for
\* the zero vector (0.0 / 0.0), 0 in the horizontal plane, +-90 on the
\* vertical, and 45 stands for every angle in between. The azimuth is
\* atan2(-s, e) in degrees, to which 360.0 is added when it is negative.
look_angles_sez(v) ==
    LET y == [h |-> -v.s.h, eps |-> -v.s.eps]
        elevation_nan == range_is_zero(v)
        elevation_deg == IF v.z = 0 THEN 0
                         ELSE IF v.s.h = 0 /\ v.e = 0 THEN 90 * sign(v.z)
                         ELSE 45 * sign(v.z)
        azimuth_raw == IF y.h # 0
                         THEN Exact(sign(y.h) * (90 - 45 * sign(v.e)))
                       ELSE IF v.e > 0 THEN [h |-> 0, eps |-> y.eps]
                       ELSE IF v.e < 0 THEN Exact(IF y.eps >= 0 THEN 180 ELSE -180)
                       ELSE Exact(90 * sign(y.eps))
        negative == azimuth_raw.h < 0 \/ (azimuth_raw.h = 0 /\ azimuth_raw.eps < 0)
        azimuth_deg == IF negative THEN add_360(azimuth_raw) ELSE azimuth_raw
    IN  [elevation_nan |-> elevation_nan, elevation_deg |-> elevation_deg,
         azimuth_deg |-> azimuth_deg, divided |-> TRUE]

\* One evaluation of lines 318-330.
look_angles_call ==
    /\ \E v \in RangeVectors :
          /\ range_sez' = v
          /\ look' = look_angles_sez(v)
    /\ UNCHANGED <<pc, endpoint, tle, start_unix, end_unix, step_seconds, timestamp,
                   results, attempts, ephemeris, ret, response, core_calls, metrics,
                   visVars, batchVars, handlers, lock, history, entry>>

\* ------------------------------------------------------------------------
\* propagator.rs: calculate_visibility_passes
\* ------------------------------------------------------------------------

\* Lines 152-179: parse, initialise, and enter the loop.
calculate_visibility_passes ==
    /\ pc = "idle"
    /\ \E t \in TLEs, gs \in GroundStations, s \in Starts :
         \E e \in VisEnds(s) :
            /\ tle' = t
            /\ ground_station' = gs
            /\ start_unix' = s
            /\ end_unix' = e
            /\ IF ~from_tle(t)
                 THEN /\ ret' = Err("TleParseError")
                      /\ pc' = "done"
                      /\ UNCHANGED <<timestamp, in_pass, current_pass_start,
                                     current_pass_start_azimuth, max_elevation,
                                     tca_timestamp, passes>>
                 ELSE IF ~from_elements(t)
                 THEN /\ ret' = Err("PropagatorError")
                      /\ pc' = "done"
                      /\ UNCHANGED <<timestamp, in_pass, current_pass_start,
                                     current_pass_start_azimuth, max_elevation,
                                     tca_timestamp, passes>>
                 ELSE /\ passes' = <<>>
                      /\ in_pass' = FALSE
                      /\ current_pass_start' = 0
                      /\ current_pass_start_azimuth' = 0
                      /\ max_elevation' = 0
                      /\ tca_timestamp' = 0
                      /\ timestamp' = s
                      /\ pc' = "vis_loop"
                      /\ ret' = NoRet
    /\ endpoint' = "core"
    /\ step_seconds' = vis_step_seconds
    /\ attempts' = 0
    /\ entry' = "calculate_visibility_passes"
    /\ UNCHANGED ephemeris
    /\ UNCHANGED <<results, response, core_calls, metrics, batchVars, taskVars>>

\* The loop condition with the end of the window excluded.
visibility_continue_strict(ts, e) == ts < e

\* Line 180: the loop condition.
visibility_continue(ts, e) == ts <= e

\* The horizon taken for the threshold.
above_horizon_zero(elevation, gs) == elevation >= 0

\* Line 193: let above_horizon = elevation >= ground_station.min_elevation_deg
above_horizon(elevation, gs) == elevation >= gs.min_elevation_deg

\* A start of pass that leaves the time of closest approach as it was.
pass_start_keep_tca(ts, elevation, azimuth) ==
    [in_pass |-> TRUE,
     current_pass_start |-> ts,
     current_pass_start_azimuth |-> azimuth,
     max_elevation |-> elevation,
     tca_timestamp |-> tca_timestamp]

\* Lines 197-201: start of a new pass.
pass_start(ts, elevation, azimuth) ==
    [in_pass |-> TRUE,
     current_pass_start |-> ts,
     current_pass_start_azimuth |-> azimuth,
     max_elevation |-> elevation,
     tca_timestamp |-> ts]

\* An update that also moves the time of closest approach to a sample that
\* only equals the maximum.
pass_update_latest(ts, elevation) ==
    IF elevation >= max_elevation
      THEN [max_elevation |-> elevation, tca_timestamp |-> ts]
      ELSE [max_elevation |-> max_elevation, tca_timestamp |-> tca_timestamp]

\* Lines 204-207: update of the maximum elevation.
pass_update(ts, elevation) ==
    IF elevation > max_elevation
      THEN [max_elevation |-> elevation, tca_timestamp |-> ts]
      ELSE [max_elevation |-> max_elevation, tca_timestamp |-> tca_timestamp]

\* An end of pass that leaves the pass open.
in_pass_after_end_stuck == TRUE

\* Line 210: the state after the end of a pass.
in_pass_after_end == FALSE

\* A pass that ends at the last sample above the threshold.
pass_end_previous_sample(ts, end_azimuth) ==
    [aos_timestamp |-> current_pass_start,
     los_timestamp |-> ts - step_seconds,
     tca_timestamp |-> tca_timestamp,
     max_elevation_deg |-> max_elevation,
     aos_azimuth_deg |-> current_pass_start_azimuth,
     los_azimuth_deg |-> end_azimuth,
     duration_seconds |-> ts - step_seconds - current_pass_start]

\* Lines 221-229: the pass pushed at the end of a pass.
pass_end(ts, end_azimuth) ==
    [aos_timestamp |-> current_pass_start,
     los_timestamp |-> ts,
     tca_timestamp |-> tca_timestamp,
     max_elevation_deg |-> max_elevation,
     aos_azimuth_deg |-> current_pass_start_azimuth,
     los_azimuth_deg |-> end_azimuth,
     duration_seconds |-> ts - current_pass_start]

\* A final pass that ends at the last sample taken.
pass_at_window_end_last_sample(e) ==
    [aos_timestamp |-> current_pass_start,
     los_timestamp |-> timestamp - step_seconds,
     tca_timestamp |-> tca_timestamp,
     max_elevation_deg |-> max_elevation,
     aos_azimuth_deg |-> current_pass_start_azimuth,
     los_azimuth_deg |-> 0,
     duration_seconds |-> timestamp - step_seconds - current_pass_start]

\* Lines 238-246: the pass pushed when the window ends inside a pass.
pass_at_window_end(e) ==
    [aos_timestamp |-> current_pass_start,
     los_timestamp |-> e,
     tca_timestamp |-> tca_timestamp,
     max_elevation_deg |-> max_elevation,
     aos_azimuth_deg |-> current_pass_start_azimuth,
     los_azimuth_deg |-> 0,
     duration_seconds |-> e - current_pass_start]

\* A failed sample that takes the satellite for gone.
in_pass_after_failure_out == FALSE

\* Lines 183, 231: if let Ok(..) has no else branch, a failed sample leaves
\* the state of the sweep as it was.
in_pass_after_failure == in_pass

\* Lines 180-234: one iteration of the loop.
calculate_visibility_passes_step ==
    /\ pc = "vis_loop"
    /\ visibility_continue(timestamp, end_unix)
    /\ \E o \in propagate_at(tle, timestamp) :
         /\ ephemeris' = (<<tle, timestamp>> :> o) @@ ephemeris
         /\ IF o.ok
              THEN LET la == calculate_look_angles(o.position, ground_station, timestamp)
                       above == above_horizon(la.elevation, ground_station)
                   IN  IF above /\ ~in_pass
                         THEN LET st == pass_start(timestamp, la.elevation, la.azimuth) IN
                              /\ in_pass' = st.in_pass
                              /\ current_pass_start' = st.current_pass_start
                              /\ current_pass_start_azimuth' = st.current_pass_start_azimuth
                              /\ max_elevation' = st.max_elevation
                              /\ tca_timestamp' = st.tca_timestamp
                              /\ UNCHANGED passes
                       ELSE IF above /\ in_pass
                         THEN LET up == pass_update(timestamp, la.elevation) IN
                              /\ max_elevation' = up.max_elevation
                              /\ tca_timestamp' = up.tca_timestamp
                              /\ UNCHANGED <<in_pass, current_pass_start,
                                             current_pass_start_azimuth, passes>>
                       ELSE IF ~above /\ in_pass
                         THEN LET end_azimuth ==
                                    calculate_look_angles(o.position, ground_station,
                                        timestamp - step_seconds).azimuth
                              IN
                              /\ in_pass' = in_pass_after_end
                              /\ passes' = Append(passes, pass_end(timestamp, end_azimuth))
                              /\ UNCHANGED <<current_pass_start, current_pass_start_azimuth,
                                             max_elevation, tca_timestamp>>
                       ELSE UNCHANGED <<in_pass, current_pass_start,
                                        current_pass_start_azimuth, max_elevation,
                                        tca_timestamp, passes>>
              ELSE /\ in_pass' = in_pass_after_failure
                   /\ UNCHANGED <<current_pass_start, current_pass_start_azimuth,
                                  max_elevation, tca_timestamp, passes>>
    /\ attempts' = attempts + 1
    /\ timestamp' = timestamp + step_seconds
    /\ UNCHANGED <<pc, endpoint, tle, ground_station, start_unix, end_unix,
                   step_seconds, results, ret, response, core_calls, metrics,
                   batchVars, taskVars, entry>>

\* Lines 236-250: the pass still open at the end of the window, and the return.
calculate_visibility_passes_return ==
    /\ pc = "vis_loop"
    /\ ~visibility_continue(timestamp, end_unix)
    /\ passes' = IF in_pass THEN Append(passes, pass_at_window_end(end_unix))
                            ELSE passes
    /\ ret' = Ok(passes')
    /\ pc' = "done"
    /\ UNCHANGED <<endpoint, tle, ground_station, start_unix, end_unix, step_seconds,
                   timestamp, results, attempts, ephemeris, response, core_calls,
                   metrics, in_pass, current_pass_start, current_pass_start_azimuth,
                   max_elevation, tca_timestamp, batchVars, taskVars, entry>>

\* ------------------------------------------------------------------------
\* main.rs: batch_propagate_handler (HTTP /api/propagate/batch)
\* ------------------------------------------------------------------------

\* The PropagateResponse of one element.
PropagateResponse(req, ok, e, pos) ==
    [satellite_id |-> req.satellite_id, timestamp_unix |-> req.timestamp_unix,
     success |-> ok, error |-> e, position |-> pos]

\* Lines 301-303: the empty results and the counters.
batch_propagate_handler ==
    /\ pc = "idle"
    /\ \E b \in Batches : batch_req' = b
    /\ batch_index' = 0
    /\ batch_results' = <<>>
    /\ success_count' = 0
    /\ error_count' = 0
    /\ pc' = "batch_loop"
    /\ endpoint' = "http"
    /\ UNCHANGED ephemeris
    /\ UNCHANGED <<tle, start_unix, end_unix, step_seconds, timestamp, results,
                   attempts, ret, response, core_calls, metrics, visVars,
                   taskVars, entry,
                   batch_response>>

\* A rejected element that is not counted as an error.
batch_reject_uncounted(req, res, ec) ==
    [results |-> Append(res, PropagateResponse(req, FALSE,
                     "TLE lines must be exactly 69 characters", 0)),
     error_count |-> ec]

\* Lines 308-320: an element with a line of the wrong length.
batch_reject(req, res, ec) ==
    [results |-> Append(res, PropagateResponse(req, FALSE,
                     "TLE lines must be exactly 69 characters", 0)),
     error_count |-> ec + 1]

\* propagate (propagator.rs lines 24-71) on the element's TLE, with o the
\* outcome of Constants::propagate at its timestamp.
propagate(t, o) ==
    IF ~from_tle(t) THEN Err("TleParseError")
    ELSE IF ~from_elements(t) THEN Err("PropagatorError")
    ELSE IF ~o.ok THEN Err("PropagatorError")
    ELSE Ok(o.position)

\* Lines 322-359: the two arms of the match on the result of propagate.
batch_match(req, r, res, sc, ec) ==
    IF r.kind = "Ok"
      THEN [results |-> Append(res, PropagateResponse(req, TRUE, "", r.value)),
            success_count |-> sc + 1,
            error_count |-> ec]
      ELSE [results |-> Append(res, PropagateResponse(req, FALSE, r.error, 0)),
            success_count |-> sc,
            error_count |-> ec + 1]

\* Lines 306-360: one iteration of the loop over the requests.
batch_propagate_handler_step ==
    /\ pc = "batch_loop"
    /\ batch_index < Len(batch_req)
    /\ LET req == batch_req[batch_index + 1] IN
       IF req.tle.len1 # TleLineLen \/ req.tle.len2 # TleLineLen
         THEN LET st == batch_reject(req, batch_results, error_count) IN
              /\ batch_results' = st.results
              /\ error_count' = st.error_count
              /\ UNCHANGED <<success_count, ephemeris>>
         ELSE \E o \in propagate_at(req.tle, req.timestamp_unix) :
                LET reached == from_tle(req.tle) /\ from_elements(req.tle)
                    r == propagate(req.tle, o)
                    st == batch_match(req, r, batch_results, success_count, error_count)
                IN  /\ ephemeris' = IF reached
                                      THEN (<<req.tle, req.timestamp_unix>> :> o) @@ ephemeris
                                      ELSE ephemeris
                    /\ batch_results' = st.results
                    /\ success_count' = st.success_count
                    /\ error_count' = st.error_count
    /\ batch_index' = batch_index + 1
    /\ UNCHANGED <<pc, endpoint, tle, start_unix, end_unix, step_seconds, timestamp,
                   results, attempts, ret, response, core_calls, metrics, visVars,
                   taskVars, entry,
                   batch_req, batch_response>>

\* Lines 362-374: the metrics and the response.
batch_propagate_handler_respond ==
    /\ pc = "batch_loop"
    /\ batch_index = Len(batch_req)
    /\ metrics' = [metrics EXCEPT !.propagation_count = @ + success_count,
                                  !.error_count = @ + error_count]
    /\ batch_response' =
          [kind |-> "batch", results |-> batch_results,
           total_count |-> Len(batch_results),
           success_count |-> success_count, error_count |-> error_count]
    /\ pc' = "done"
    /\ UNCHANGED <<endpoint, tle, start_unix, end_unix, step_seconds, timestamp,
                   results, attempts, ephemeris, ret, response, core_calls, visVars,
                   taskVars, entry,
                   batch_req, batch_index, batch_results, success_count, error_count>>

\* ------------------------------------------------------------------------
\* propagator.rs: propagate, called directly
\* ------------------------------------------------------------------------

\* Lines 24-71: parse, initialise, propagate once and convert.
propagate_call ==
    /\ pc = "idle"
    /\ \E t \in TLEs, ts \in Starts :
         \E o \in propagate_at(t, ts) :
            LET reached == from_tle(t) /\ from_elements(t) IN
            /\ tle' = t
            /\ timestamp' = ts
            /\ ephemeris' = IF reached THEN (<<t, ts>> :> o) @@ ephemeris
                                       ELSE ephemeris
            /\ attempts' = IF reached THEN 1 ELSE 0
            /\ ret' = propagate(t, o)
    /\ entry' = "propagate"
    /\ endpoint' = "core"
    /\ pc' = "done"
    /\ UNCHANGED <<start_unix, end_unix, step_seconds, results, response,
                   core_calls, metrics, visVars, batchVars, taskVars>>

\* ------------------------------------------------------------------------
\* The single-point handlers, served as concurrent tasks
\* ------------------------------------------------------------------------

\* What the handlers of single-point requests leave alone.
callVars == <<pc, endpoint, tle, start_unix, end_unix, step_seconds, timestamp,
              results, attempts, ret, response, core_calls, entry, history,
              visVars, batchVars, lookVars>>

HttpPropagate(st, body) == [kind |-> "http", status |-> st, body |-> body]

GrpcPropagate(body) == [kind |-> "grpc", status |-> "OK", body |-> body]

\* tokio::sync::RwLock: write() is granted when nobody holds the lock,
\* read() when no writer holds it; dropping the guard releases it.
write_granted(l) == l.writer = 0 /\ l.readers = {}
read_granted(l) == l.writer = 0
write_acquire(l, p) == [l EXCEPT !.writer = p]
read_acquire(l, p) == [l EXCEPT !.readers = @ \cup {p}]

\* A guard whose drop leaves the lock held.
release_leaked(l, p) == l

release(l, p) ==
    [writer |-> IF l.writer = p THEN 0 ELSE l.writer, readers |-> l.readers \ {p}]

\* main.rs lines 236 and 265: the counters of AppState.metrics.
increment_propagation_count(m) == [m EXCEPT !.propagation_count = @ + 1]
increment_error_count(m) == [m EXCEPT !.error_count = @ + 1]

\* A record_propagation that takes a failed request back out of the count of
\* the successful ones.
record_propagation_gauge(m, success) ==
    IF success THEN [m EXCEPT !.grpc_success = @ + 1]
               ELSE [m EXCEPT !.grpc_error = @ + 1, !.grpc_success = @ - 1]

\* metrics.rs: MetricsState::record_propagation
record_propagation(m, success) ==
    IF success THEN [m EXCEPT !.grpc_success = @ + 1]
               ELSE [m EXCEPT !.grpc_error = @ + 1]

\* A check of the age that also rejects the timestamp of exactly one year ago.
timestamp_too_old_inclusive(ts, n) == ts <= n - OneYear

\* main.rs line 218: if req.timestamp_unix < now - (365 * 24 * 3600)
timestamp_too_old(ts, n) == ts < n - OneYear

\* main.rs lines 196-232: the two validations of propagate_handler.
propagate_handler(p) ==
    /\ handlers[p].pc = "idle"
    /\ \E t \in TLEs, ts \in RequestTimes, n \in Nows :
         LET req == [satellite_id |-> "A", tle |-> t, timestamp_unix |-> ts]
             h == [handlers[p] EXCEPT !.kind = "http", !.req = req, !.now = n]
             reject(msg) ==
                 [h EXCEPT !.pc = "done",
                           !.response = HttpPropagate("BAD_REQUEST",
                                            PropagateResponse(req, FALSE, msg, 0))]
         IN  handlers' = [handlers EXCEPT ![p] =
                 IF t.len1 # TleLineLen \/ t.len2 # TleLineLen
                   THEN reject("TLE lines must be exactly 69 characters")
                 ELSE IF timestamp_too_old(ts, n)
                   THEN reject("Timestamp is more than 1 year in the past")
                 ELSE [h EXCEPT !.pc = "count"]]
    /\ UNCHANGED <<callVars, ephemeris, metrics, lock>>

\* main.rs lines 235 and 264: state.write().await
propagate_handler_write(p) ==
    /\ handlers[p].pc \in {"count", "error"}
    /\ write_granted(lock)
    /\ lock' = write_acquire(lock, p)
    /\ handlers' = [handlers EXCEPT ![p].pc =
                        IF @ = "count" THEN "counting" ELSE "erroring"]
    /\ UNCHANGED <<callVars, ephemeris, metrics>>

\* main.rs lines 236-237: the propagation counter, and the guard is dropped.
propagate_handler_count(p) ==
    /\ handlers[p].pc = "counting"
    /\ metrics' = increment_propagation_count(metrics)
    /\ lock' = release(lock, p)
    /\ handlers' = [handlers EXCEPT ![p].pc = "propagate",
                                    ![p].metric_updates = @ + 1]
    /\ UNCHANGED <<callVars, ephemeris>>

\* main.rs lines 239-261: the call of the core and the Ok arm of the match.
propagate_handler_call(p) ==
    /\ handlers[p].pc = "propagate"
    /\ handlers[p].kind = "http"
    /\ LET h == handlers[p]
           req == h.req
       IN  \E o \in propagate_at(req.tle, req.timestamp_unix) :
              LET reached == from_tle(req.tle) /\ from_elements(req.tle)
                  r == propagate(req.tle, o)
                  called == [h EXCEPT !.result = r, !.core_calls = @ + 1]
              IN  /\ ephemeris' =
                        IF reached
                          THEN (<<req.tle, req.timestamp_unix>> :> o) @@ ephemeris
                          ELSE ephemeris
                  /\ handlers' = [handlers EXCEPT ![p] =
                        IF r.kind = "Ok"
                          THEN [called EXCEPT
                                  !.pc = "done",
                                  !.response = HttpPropagate("OK",
                                      PropagateResponse(req, TRUE, "", r.value))]
                          ELSE [called EXCEPT !.pc = "error"]]
    /\ UNCHANGED <<callVars, metrics, lock>>

\* main.rs lines 265-292: the error counter, the guard is dropped, and the
\* response of the Err arm.
propagate_handler_error(p) ==
    /\ handlers[p].pc = "erroring"
    /\ metrics' = increment_error_count(metrics)
    /\ lock' = release(lock, p)
    /\ LET h == handlers[p] IN
       handlers' = [handlers EXCEPT ![p] =
           [h EXCEPT !.pc = "done",
                     !.metric_updates = @ + 1,
                     !.response = HttpPropagate("BAD_REQUEST",
                         PropagateResponse(h.req, FALSE, h.result.error, 0))]]
    /\ UNCHANGED <<callVars, ephemeris>>

\* service.rs lines 35-52: the validations of propagate_position.  The
\* request's tle is optional: NoTle is the absent one.
propagate_position(p) ==
    /\ handlers[p].pc = "idle"
    /\ \E t \in PositionTles, ts \in RequestTimes :
         LET req == [satellite_id |-> "A", tle |-> t, timestamp_unix |-> ts]
             h == [handlers[p] EXCEPT !.kind = "grpc", !.req = req]
             reject(msg) ==
                 [h EXCEPT !.pc = "done",
                           !.response = GrpcStatus("INVALID_ARGUMENT", msg)]
         IN  handlers' = [handlers EXCEPT ![p] =
                 IF t = NoTle
                   THEN reject("TLE is required")
                 ELSE IF t.len1 = 0 \/ t.len2 = 0
                   THEN reject("TLE lines cannot be empty")
                 ELSE [h EXCEPT !.pc = "propagate"]]
    /\ UNCHANGED <<callVars, ephemeris, metrics, lock>>

\* service.rs line 55: the call of the core.
propagate_position_call(p) ==
    /\ handlers[p].pc = "propagate"
    /\ handlers[p].kind = "grpc"
    /\ LET h == handlers[p]
           req == h.req
       IN  \E o \in propagate_at(req.tle, req.timestamp_unix) :
              LET reached == from_tle(req.tle) /\ from_elements(req.tle) IN
              /\ ephemeris' =
                    IF reached
                      THEN (<<req.tle, req.timestamp_unix>> :> o) @@ ephemeris
                      ELSE ephemeris
              /\ handlers' = [handlers EXCEPT ![p] =
                    [h EXCEPT !.result = propagate(req.tle, o),
                              !.core_calls = @ + 1,
                              !.pc = "record"]]
    /\ UNCHANGED <<callVars, metrics, lock>>

\* service.rs lines 61 and 98: self.state.read().await
propagate_position_read(p) ==
    /\ handlers[p].pc = "record"
    /\ read_granted(lock)
    /\ lock' = read_acquire(lock, p)
    /\ handlers' = [handlers EXCEPT ![p].pc = "recording"]
    /\ UNCHANGED <<callVars, ephemeris, metrics>>

\* service.rs lines 62-91 and 99-116: record_propagation, the guard is
\* dropped, and the response of either arm.
propagate_position_record(p) ==
    /\ handlers[p].pc = "recording"
    /\ LET h == handlers[p]
           r == h.result
       IN  /\ metrics' = record_propagation(metrics, r.kind = "Ok")
           /\ handlers' = [handlers EXCEPT ![p] =
                 [h EXCEPT !.pc = "done",
                           !.metric_updates = @ + 1,
                           !.response =
                              IF r.kind = "Ok"
                                THEN GrpcPropagate(
                                       PropagateResponse(h.req, TRUE, "", r.value))
                                ELSE GrpcPropagate(
                                       PropagateResponse(h.req, FALSE, r.error, 0))]]
    /\ lock' = release(lock, p)
    /\ UNCHANGED <<callVars, ephemeris>>

\* ------------------------------------------------------------------------
\* service.rs: calculate_visibility (gRPC CalculateVisibility)
\* ------------------------------------------------------------------------

\* The windows of the visibility requests: those of the core, and three of
\* an hour, of seventy minutes and of a day.
GrpcVisEnds(s) == VisEnds(s) \cup {s + 3600, s + 4200, s + 86400}

VisibilityResponse(ok, e, ps) ==
    [kind |-> "grpc", status |-> "OK", success |-> ok, error |-> e, passes |-> ps]

\* metrics.rs: MetricsState::record_visibility
record_visibility(m, success) ==
    IF success THEN [m EXCEPT !.grpc_success = @ + 1]
               ELSE [m EXCEPT !.grpc_error = @ + 1]

\* Lines 173-181: the pass of the response, computed from the start of the
\* window alone.
visibility_pass(s) ==
    [aos_timestamp |-> s + 3600,
     los_timestamp |-> s + 4200,
     max_elevation_timestamp |-> s + 3900,
     max_elevation_deg |-> 45,
     aos_azimuth_deg |-> 270,
     los_azimuth_deg |-> 90,
     duration_seconds |-> 600]

\* Lines 122-186: the whole handler.  The ground station and the TLE are
\* optional: NoStation and NoTle are the absent ones.  The metrics are
\* recorded under the read lock, which is released before the response.
grpc_calculate_visibility ==
    /\ pc = "idle"
    /\ \E t \in TLEs \cup {NoTle}, gs \in GroundStations \cup {NoStation},
          s \in Starts :
         \E e \in GrpcVisEnds(s) :
            /\ tle' = t
            /\ ground_station' = gs
            /\ start_unix' = s
            /\ end_unix' = e
            /\ IF gs = NoStation
                 THEN /\ response' = GrpcStatus("INVALID_ARGUMENT",
                                                "Ground station is required")
                      /\ UNCHANGED metrics
                 ELSE IF t = NoTle
                 THEN /\ response' = GrpcStatus("INVALID_ARGUMENT", "TLE is required")
                      /\ UNCHANGED metrics
                 ELSE /\ read_granted(lock)
                      /\ metrics' = record_visibility(metrics, TRUE)
                      /\ response' = VisibilityResponse(TRUE, "", <<visibility_pass(s)>>)
    /\ endpoint' = "grpc"
    /\ pc' = "done"
    /\ UNCHANGED <<step_seconds, timestamp, results, attempts, ephemeris, ret,
                   core_calls, entry, in_pass, current_pass_start,
                   current_pass_start_azimuth, max_elevation, tca_timestamp, passes,
                   batchVars, taskVars>>

\* ------------------------------------------------------------------------
\* The batch handler, served next to the single-point handlers
\* ------------------------------------------------------------------------

\* The task that serves the batch request, as a holder of the lock.
BatchTask == NProcs + 1

\* main.rs line 364: state.write().await, after the loop over the requests.
batch_propagate_handler_write ==
    /\ pc = "batch_loop"
    /\ batch_index = Len(batch_req)
    /\ write_granted(lock)
    /\ lock' = write_acquire(lock, BatchTask)
    /\ pc' = "batch_adding"
    /\ UNCHANGED <<endpoint, tle, start_unix, end_unix, step_seconds, timestamp,
                   results, attempts, ephemeris, ret, response, core_calls, metrics,
                   visVars, batchVars, handlers, history, lookVars, entry>>

\* main.rs lines 365-374: the counters are added, the guard is dropped, and
\* the response is returned.
batch_propagate_handler_add ==
    /\ pc = "batch_adding"
    /\ metrics' = [metrics EXCEPT !.propagation_count = @ + success_count,
                                  !.error_count = @ + error_count]
    /\ lock' = release(lock, BatchTask)
    /\ batch_response' =
          [kind |-> "batch", results |-> batch_results,
           total_count |-> Len(batch_results),
           success_count |-> success_count, error_count |-> error_count]
    /\ pc' = "done"
    /\ UNCHANGED <<endpoint, tle, start_unix, end_unix, step_seconds, timestamp,
                   results, attempts, ephemeris, ret, response, core_calls, visVars,
                   handlers, history, lookVars, entry,
                   batch_req, batch_index, batch_results, success_count, error_count>>

\* The requests served at the same time: single points of a valid TLE at
\* time 7, read at the clock OneYear + 7, and batches of up to two of them;
\* the propagation at that time fails or gives the position 0.
ConcurrentRequest(p) ==
    /\ handlers[p].req.tle = ValidTle
    /\ handlers[p].req.timestamp_unix = 7
    /\ handlers[p].kind = "http" => handlers[p].now = OneYear + 7

ConcurrentBatch ==
    /\ Len(batch_req) <= 2
    /\ \A i \in DOMAIN batch_req :
          batch_req[i] = [satellite_id |-> "B", tle |-> ValidTle, timestamp_unix |-> 7]

ConcurrentOutcome == \A k \in DOMAIN ephemeris : ephemeris[k].position = 0

concurrent_propagate_handler(p) == propagate_handler(p) /\ ConcurrentRequest(p)'

concurrent_propagate_position(p) == propagate_position(p) /\ ConcurrentRequest(p)'

concurrent_batch_propagate_handler == batch_propagate_handler /\ ConcurrentBatch'

\* ------------------------------------------------------------------------
\* The core called several times by one caller
\* ------------------------------------------------------------------------

\* The arguments of the running call of the core.
CallArgs ==
    CASE entry = "propagate" -> <<tle, timestamp>>
      [] entry = "propagate_trajectory" ->
             <<tle, start_unix, end_unix, step_seconds>>
      [] entry = "calculate_visibility_passes" ->
             <<tle, ground_station, start_unix, end_unix>>
      [] OTHER -> <<>>

\* The caller keeps the result of the call that returned and is free to call
\* again; what the call left in its locals stays where it is.
next_call ==
    /\ pc = "done"
    /\ endpoint = "core"
    /\ Len(history) < MaxCalls - 1
    /\ history' = Append(history, [entry |-> entry, args |-> CallArgs, ret |-> ret])
    /\ pc' = "idle"
    /\ UNCHANGED <<endpoint, tle, start_unix, end_unix, step_seconds, timestamp,
                   results, attempts, ephemeris, ret, response, core_calls,
                   metrics, visVars, batchVars, handlers, lock, entry, lookVars>>

\* The calls that are repeated: a valid or a malformed TLE, the single point
\* at time 0, the trajectories from 0 to 0 or 1 by steps of one second, the
\* visibility windows from 0 to 0 or to one grid step for the first station.
RepeatInputs ==
    /\ tle \in {ValidTle, MalformedTle}
    /\ CASE entry = "propagate" -> timestamp = 0
         [] entry = "propagate_trajectory" ->
                start_unix = 0 /\ end_unix \in {0, 1} /\ step_seconds = 1
         [] entry = "calculate_visibility_passes" ->
                /\ start_unix = 0
                /\ end_unix \in {0, vis_step_seconds}
                /\ ground_station.longitude_sect = 0
         [] OTHER -> FALSE

repeat_propagate == propagate_call /\ RepeatInputs'

repeat_propagate_trajectory == propagate_trajectory /\ RepeatInputs'

repeat_calculate_visibility_passes == calculate_visibility_passes /\ RepeatInputs'

\* ------------------------------------------------------------------------
\* Specifications
\* ------------------------------------------------------------------------

\* The trajectory sweep and its two handlers.
NextTrajectory ==
    \/ propagate_trajectory
    \/ propagate_trajectory_step
    \/ propagate_trajectory_return
    \/ trajectory_handler
    \/ trajectory_handler_respond
    \/ grpc_propagate_trajectory
    \/ grpc_propagate_trajectory_respond

SpecTrajectory == Init /\ [][NextTrajectory]_vars

\* The visibility sweep.
NextVisibility ==
    \/ calculate_visibility_passes
    \/ calculate_visibility_passes_step
    \/ calculate_visibility_passes_return

SpecVisibility == Init /\ [][NextVisibility]_vars

\* The batch handler.
NextBatch ==
    \/ batch_propagate_handler
    \/ batch_propagate_handler_step
    \/ batch_propagate_handler_respond

SpecBatch == Init /\ [][NextBatch]_vars

\* The single-point handlers, served concurrently.
NextHandlers ==
    \E p \in Procs :
        \/ propagate_handler(p)
        \/ propagate_handler_write(p)
        \/ propagate_handler_count(p)
        \/ propagate_handler_call(p)
        \/ propagate_handler_error(p)
        \/ propagate_position(p)
        \/ propagate_position_call(p)
        \/ propagate_position_read(p)
        \/ propagate_position_record(p)

SpecHandlers == Init /\ [][NextHandlers]_vars

\* The three entry points of the core, called directly.
NextCore ==
    \/ propagate_call
    \/ propagate_trajectory
    \/ propagate_trajectory_step
    \/ propagate_trajectory_return
    \/ calculate_visibility_passes
    \/ calculate_visibility_passes_step
    \/ calculate_visibility_passes_return

SpecCore == Init /\ [][NextCore]_vars

\* The three entry points of the core, called one after the other.
NextRepeat ==
    \/ repeat_propagate
    \/ repeat_propagate_trajectory
    \/ propagate_trajectory_step
    \/ propagate_trajectory_return
    \/ repeat_calculate_visibility_passes
    \/ calculate_visibility_passes_step
    \/ calculate_visibility_passes_return
    \/ next_call

SpecRepeat == Init /\ [][NextRepeat]_vars

\* The steps of a single-point handler that was started.
handler_step(p) ==
    \/ propagate_handler_write(p)
    \/ propagate_handler_count(p)
    \/ propagate_handler_call(p) /\ ConcurrentOutcome'
    \/ propagate_handler_error(p)
    \/ propagate_position_call(p) /\ ConcurrentOutcome'
    \/ propagate_position_read(p)
    \/ propagate_position_record(p)

\* The steps of the batch handler once started.
batch_step ==
    \/ batch_propagate_handler_step /\ ConcurrentOutcome'
    \/ batch_propagate_handler_write
    \/ batch_propagate_handler_add

\* The HTTP and gRPC handlers served at the same time, as tasks of the
\* runtime: each task that can take a step eventually takes one.
NextConcurrent ==
    \/ \E p \in Procs :
          \/ concurrent_propagate_handler(p)
          \/ concurrent_propagate_position(p)
          \/ handler_step(p)
    \/ concurrent_batch_propagate_handler
    \/ batch_step

SpecConcurrent ==
    /\ Init
    /\ [][NextConcurrent]_vars
    /\ \A p \in Procs : WF_vars(handler_step(p))
    /\ WF_vars(batch_step)

\* The samples of a sweep followed for its grid alone: each one fails or
\* gives the position 0.
GridOutcome == \A k \in DOMAIN ephemeris : ephemeris[k].position = 0

sweep_step ==
    \/ propagate_trajectory_step /\ GridOutcome'
    \/ calculate_visibility_passes_step /\ GridOutcome'

sweep_return ==
    \/ propagate_trajectory_return
    \/ calculate_visibility_passes_return

\* The two sweeps of the core called directly, their loops running without
\* pause: an iteration that can be taken is taken, and a loop whose
\* condition fails returns.
NextSweeps ==
    \/ propagate_trajectory
    \/ calculate_visibility_passes
    \/ sweep_step
    \/ sweep_return

SpecSweeps ==
    /\ Init
    /\ [][NextSweeps]_vars
    /\ WF_vars(sweep_step)
    /\ WF_vars(sweep_return)

\* The gRPC visibility handler.
NextGrpcVisibility == grpc_calculate_visibility

SpecGrpcVisibility == Init /\ [][NextGrpcVisibility]_vars

\* The look-angle computation on its own.
NextLookAngles == look_angles_call

SpecLookAngles == Init /\ [][NextLookAngles]_vars

Next ==
    \/ NextTrajectory
    \/ NextVisibility
    \/ NextBatch
    \/ NextHandlers
    \/ propagate_call
    \/ NextLookAngles
    \/ NextGrpcVisibility
    \/ batch_propagate_handler_write
    \/ batch_propagate_handler_add

Spec == Init /\ [][Next]_vars

\* ------------------------------------------------------------------------
\* Properties of the trajectory sweep and its handlers
\* ------------------------------------------------------------------------

\* floor((e - s) / h) + 1 for h > 0.
GridCount(s, e, h) == (e - s) \div h + 1

\* The timestamps of a returned trajectory.
Timestamps(v) == [i \in 1..Len(v) |-> v[i].timestamp]

\* No sample of the sweep failed.
NoSampleFailed == \A k \in DOMAIN ephemeris : ephemeris[k].ok

\* The core returned a trajectory for a window with end >= start, step > 0.
TrajectoryReturned ==
    /\ ret.kind = "Ok"
    /\ end_unix >= start_unix
    /\ step_seconds > 0

\* C1 as stated: a returned trajectory over [s, e] with step h > 0 has exactly
\* floor((e-s)/h)+1 entries and consecutive timestamps differ by exactly h.
C1_Original ==
    TrajectoryReturned =>
        LET v == ret.value IN
        /\ Len(v) = GridCount(start_unix, end_unix, step_seconds)
        /\ \A i \in 1..(Len(v) - 1) :
              v[i + 1].timestamp - v[i].timestamp = step_seconds

\* C1 amended: when no sample's propagation fails, a returned trajectory over
\* [s, e] with step h > 0 has exactly floor((e-s)/h)+1 entries whose
\* consecutive timestamps differ by exactly h; when samples fail it has fewer
\* entries, still strictly ascending, differing by positive multiples of h.
C1_TrajectoryGrid ==
    TrajectoryReturned =>
        LET v == ret.value
            n == GridCount(start_unix, end_unix, step_seconds)
        IN  /\ Len(v) <= n
            /\ \A i \in 1..(Len(v) - 1) :
                  /\ v[i + 1].timestamp > v[i].timestamp
                  /\ (v[i + 1].timestamp - v[i].timestamp) % step_seconds = 0
            /\ NoSampleFailed =>
                  /\ Len(v) = n
                  /\ \A i \in 1..(Len(v) - 1) :
                        v[i + 1].timestamp - v[i].timestamp = step_seconds

\* A sweep over a window of 3 seconds at step 2 has returned its two samples,
\* none failed.
C1_Witness ==
    /\ TrajectoryReturned
    /\ NoSampleFailed
    /\ step_seconds = 2
    /\ Len(ret.value) = 2
    /\ end_unix = start_unix + 3

\* The grid timestamps s + k*h, 0 <= k <= floor((e-s)/h), in ascending order.
GridSeq(s, e, h) ==
    [k \in 1..GridCount(s, e, h) |-> s + (k - 1) * h]

SampleSucceeded(ts) == Sampled(ts) /\ Outcome(ts).ok

\* C2: a returned trajectory is exactly the ascending subsequence of the grid
\* timestamps whose propagation succeeded, each with the position that was
\* propagated; and the core returns an error only from the parsing and
\* initialisation that precede the first sample.
C2_SkipFailedSamples ==
    /\ (ret.kind = "Ok" /\ step_seconds > 0) =>
          /\ Timestamps(ret.value) =
                SelectSeq(GridSeq(start_unix, end_unix, step_seconds), SampleSucceeded)
          /\ \A i \in 1..Len(ret.value) :
                ret.value[i].position = Outcome(ret.value[i].timestamp).position
    /\ ret.kind = "Err" =>
          /\ attempts = 0
          /\ ~(from_tle(tle) /\ from_elements(tle))
    /\ (pc = "traj_loop" /\ attempts > 0) => ret.kind = "none"

\* A sweep has returned two samples around a failed one.
C2_Witness ==
    /\ ret.kind = "Ok"
    /\ step_seconds > 0
    /\ Len(ret.value) = 2
    /\ \E k \in DOMAIN ephemeris :
          /\ ~ephemeris[k].ok
          /\ ret.value[1].timestamp < k[2]
          /\ k[2] < ret.value[2].timestamp

\* The request is one the trajectory endpoint has to reject.
MustReject ==
    \/ end_unix <= start_unix
    \/ step_seconds <= 0
    \/ GridCount(start_unix, end_unix, step_seconds) > max_points

Rejected ==
    /\ ~response.success
    /\ response.status \in {"BAD_REQUEST", "INVALID_ARGUMENT"}

\* C3 as stated: the trajectory endpoint (HTTP and gRPC) rejects every request
\* with end <= start, step <= 0 or more than 10,000 samples, and does not
\* invoke the core sweep for it (stated for the requests whose TLE is valid,
\* for which a call of the core runs the sweep).
C3_Original ==
    (endpoint \in {"http", "grpc"} /\ from_tle(tle) /\ from_elements(tle)
        /\ MustReject) =>
        /\ core_calls = 0
        /\ pc = "done"
        /\ Rejected

\* C4 as stated: every sweep a handler starts terminates and attempts at most
\* 10,000 samples.  A sweep over [s, e] with step h ends only if the cursor
\* advances (h > 0), and then attempts floor((e-s)/h)+1 samples.
C4_Original ==
    (endpoint \in {"http", "grpc"} /\ pc = "traj_loop") =>
        /\ trajectory_advance(timestamp, step_seconds) > timestamp
        /\ GridCount(start_unix, end_unix, step_seconds) <= max_points
        /\ attempts <= max_points

\* C5 as stated: the core sweep called with end <= start or step <= 0 returns
\* an error, not a successful sample list.
C5_Original ==
    (ret.kind # "none" /\ (end_unix <= start_unix \/ step_seconds <= 0)) =>
        ret.kind = "Err"

\* ------------------------------------------------------------------------
\* Properties of the visibility pass finder
\* ------------------------------------------------------------------------

\* The visibility sweep has returned its passes.
VisibilityReturned == pc = "done" /\ ret.kind = "Ok" /\ ground_station # NoStation

\* C6 as stated: every emitted pass has AOS < TCA <= LOS (stated for the
\* passes of positive duration).
C6_Original ==
    \A i \in 1..Len(passes) :
        passes[i].aos_timestamp < passes[i].los_timestamp =>
            /\ passes[i].aos_timestamp < passes[i].tca_timestamp
            /\ passes[i].tca_timestamp <= passes[i].los_timestamp

\* C6 amended: every emitted pass has AOS <= TCA <= LOS; TCA equals AOS when
\* no later sample of the pass is strictly higher than its first one.
C6_PassOrder ==
    \A i \in 1..Len(passes) :
        /\ passes[i].aos_timestamp <= passes[i].tca_timestamp
        /\ passes[i].tca_timestamp <= passes[i].los_timestamp

\* Two passes were returned: one that culminates after its AOS, and one whose
\* first sample is its highest.
C6_Witness ==
    /\ VisibilityReturned
    /\ Len(passes) = 2
    /\ passes[1].aos_timestamp < passes[1].tca_timestamp
    /\ passes[1].tca_timestamp < passes[1].los_timestamp
    /\ passes[2].aos_timestamp = passes[2].tca_timestamp

\* C7: every emitted pass, closed by a sample below the threshold or at the
\* end of the window, has max_elevation >= the station's minimum elevation.
C7_MaxElevation ==
    \A i \in 1..Len(passes) :
        passes[i].max_elevation_deg >= ground_station.min_elevation_deg

\* Two passes were returned, the first closed by a sample below the
\* threshold with a maximum elevation equal to the threshold, the second
\* closed at the end of the window.
C7_Witness ==
    /\ VisibilityReturned
    /\ Len(passes) = 2
    /\ in_pass
    /\ passes[2].los_timestamp = end_unix
    /\ passes[1].los_timestamp < passes[2].aos_timestamp
    /\ passes[1].max_elevation_deg = ground_station.min_elevation_deg

\* C8: the passes are listed in strictly ascending AOS order and do not
\* overlap: a pass ends no later than any later pass begins.
C8_PassesDisjoint ==
    \A i, j \in 1..Len(passes) :
        i < j =>
            /\ passes[i].aos_timestamp < passes[j].aos_timestamp
            /\ passes[i].los_timestamp <= passes[j].aos_timestamp

\* Two passes were returned, both closed by a sample below the threshold.
C8_Witness ==
    /\ VisibilityReturned
    /\ Len(passes) = 2
    /\ ~in_pass
    /\ passes[1].los_timestamp < passes[2].aos_timestamp

\* C9 as stated: every returned pass has LOS strictly after AOS, a strictly
\* positive duration, the pass open at the end of the window included.
C9_Original ==
    \A i \in 1..Len(passes) :
        /\ passes[i].los_timestamp > passes[i].aos_timestamp
        /\ passes[i].duration_seconds > 0

\* ------------------------------------------------------------------------
\* Properties of the batch handler
\* ------------------------------------------------------------------------

\* The request passes the length check, parses, initialises, and propagates
\* at its timestamp.
ElementSucceeds(req) ==
    /\ req.tle.len1 = TleLineLen
    /\ req.tle.len2 = TleLineLen
    /\ from_tle(req.tle)
    /\ from_elements(req.tle)
    /\ <<req.tle, req.timestamp_unix>> \in DOMAIN ephemeris
    /\ ephemeris[<<req.tle, req.timestamp_unix>>].ok

\* C10: the batch response has one response per request, in request order,
\* each echoing its request's satellite id and timestamp and succeeding
\* exactly when its own request does, whatever the other elements did;
\* total_count = n, success_count + error_count = n, and success_count is the
\* number of responses whose success flag is true.
C10_BatchResponses ==
    batch_response.kind = "batch" =>
        LET n == Len(batch_req)
            rs == batch_response.results
        IN  /\ Len(rs) = n
            /\ \A i \in 1..n :
                  /\ rs[i].satellite_id = batch_req[i].satellite_id
                  /\ rs[i].timestamp_unix = batch_req[i].timestamp_unix
                  /\ rs[i].success = ElementSucceeds(batch_req[i])
            /\ batch_response.total_count = n
            /\ batch_response.success_count + batch_response.error_count = n
            /\ batch_response.success_count =
                  Cardinality({i \in 1..n : rs[i].success})

\* A batch of three was answered: a line of the wrong length, then a
\* success, then a propagation error.
C10_Witness ==
    /\ batch_response.kind = "batch"
    /\ Len(batch_req) = 3
    /\ batch_response.results[1].error = "TLE lines must be exactly 69 characters"
    /\ batch_response.results[2].success
    /\ batch_response.results[3].error = "PropagatorError"
    /\ batch_response.error_count = 2

\* ------------------------------------------------------------------------
\* Properties of the single-point handlers
\* ------------------------------------------------------------------------

\* The requests the claim says propagate_handler rejects: a line that is not
\* 69 characters long, or a timestamp more than one year before the reading
\* of the clock.
PropagateMustReject(h) ==
    \/ h.req.tle.len1 # 69
    \/ h.req.tle.len2 # 69
    \/ h.req.timestamp_unix + 365 * 24 * 3600 < h.now

\* C11: propagate_handler answers every request that has a line of the wrong
\* length or a timestamp more than one year before the current time with an
\* error response, without having called the core and without having updated
\* a metric; no other request is answered without one call of the core.
C11_PropagateValidation ==
    \A p \in Procs :
        LET h == handlers[p] IN
        h.kind = "http" =>
            IF PropagateMustReject(h)
              THEN /\ h.pc = "done"
                   /\ h.response.status = "BAD_REQUEST"
                   /\ ~h.response.body.success
                   /\ h.core_calls = 0
                   /\ h.metric_updates = 0
              ELSE /\ h.pc = "done" => h.core_calls = 1
                   /\ h.pc \in {"count", "counting"} => h.core_calls = 0

\* Two answered requests read the same clock: one a second older than a year
\* was rejected, one of exactly a year went through the core.
C11_Witness ==
    \E p, q \in Procs :
        /\ handlers[p].kind = "http" /\ handlers[q].kind = "http"
        /\ handlers[p].pc = "done" /\ handlers[q].pc = "done"
        /\ handlers[p].now = handlers[q].now
        /\ handlers[p].req.tle = ValidTle /\ handlers[q].req.tle = ValidTle
        /\ handlers[p].req.timestamp_unix + OneYear + 1 = handlers[p].now
        /\ handlers[p].response.status = "BAD_REQUEST"
        /\ handlers[p].core_calls = 0
        /\ handlers[q].req.timestamp_unix + OneYear = handlers[q].now
        /\ handlers[q].core_calls = 1
        /\ handlers[q].response.status = "OK"

\* C12: a handler answers an error of the core by its kind: an input error
\* (TleParseError) with HTTP 400 or gRPC INVALID_ARGUMENT, a numeric failure
\* (PropagatorError, from the initialisation or the propagation) with HTTP 500
\* or gRPC INTERNAL.
C12_Original ==
    \A p \in Procs :
        LET h == handlers[p] IN
        (h.pc = "done" /\ h.result.kind = "Err") =>
            IF h.result.error = "TleParseError"
              THEN h.response.status =
                      IF h.kind = "http" THEN "BAD_REQUEST" ELSE "INVALID_ARGUMENT"
              ELSE h.response.status =
                      IF h.kind = "http" THEN "INTERNAL_SERVER_ERROR" ELSE "INTERNAL"

\* The result of propagate on the request of h, with the outcome that
\* Constants::propagate has for its TLE and timestamp.
AloneResult(h) ==
    IF from_tle(h.req.tle) /\ from_elements(h.req.tle)
      THEN propagate(h.req.tle, ephemeris[<<h.req.tle, h.req.timestamp_unix>>])
      ELSE propagate(h.req.tle, [ok |-> FALSE, position |-> 0])

\* The response the handler gives to the request of h when it is the only
\* request the service ever serves.
AloneResponse(h) ==
    IF h.kind = "http"
      THEN IF h.req.tle.len1 # TleLineLen \/ h.req.tle.len2 # TleLineLen
             THEN HttpPropagate("BAD_REQUEST", PropagateResponse(h.req, FALSE,
                      "TLE lines must be exactly 69 characters", 0))
           ELSE IF h.req.timestamp_unix < h.now - OneYear
             THEN HttpPropagate("BAD_REQUEST", PropagateResponse(h.req, FALSE,
                      "Timestamp is more than 1 year in the past", 0))
           ELSE IF AloneResult(h).kind = "Ok"
             THEN HttpPropagate("OK", PropagateResponse(h.req, TRUE, "",
                      AloneResult(h).value))
           ELSE HttpPropagate("BAD_REQUEST", PropagateResponse(h.req, FALSE,
                      AloneResult(h).error, 0))
      ELSE IF h.req.tle = NoTle
             THEN GrpcStatus("INVALID_ARGUMENT", "TLE is required")
           ELSE IF h.req.tle.len1 = 0 \/ h.req.tle.len2 = 0
             THEN GrpcStatus("INVALID_ARGUMENT", "TLE lines cannot be empty")
           ELSE IF AloneResult(h).kind = "Ok"
             THEN GrpcPropagate(PropagateResponse(h.req, TRUE, "",
                      AloneResult(h).value))
           ELSE GrpcPropagate(PropagateResponse(h.req, FALSE,
                      AloneResult(h).error, 0))

\* The counters of the metrics.
Counters == DOMAIN NoMetrics

\* C15: in every interleaving of the handlers' steps, a step changes the
\* state of one handler only and, of what the handlers share, the metrics
\* counters and the lock that guards them only; no counter ever decreases;
\* and the response of every handler that has answered is the response it
\* gives when it runs alone.
C15_Isolation ==
    [][ /\ \A c \in Counters : metrics'[c] >= metrics[c]
        /\ \A p, q \in Procs :
              (handlers'[p] # handlers[p] /\ q # p) => handlers'[q] = handlers[q]
        /\ UNCHANGED callVars
        /\ \A p \in Procs :
              handlers'[p].pc = "done" =>
                  handlers'[p].response = AloneResponse(handlers[p])'
      ]_vars

\* An HTTP request has been answered after a failure of the core, having
\* counted twice, while a gRPC request for the same TLE and time holds the
\* read lock to record its own failure.
C15_Witness ==
    \E p, q \in Procs :
        /\ handlers[p].kind = "http" /\ handlers[p].pc = "done"
        /\ handlers[p].metric_updates = 2
        /\ handlers[q].kind = "grpc" /\ handlers[q].pc = "recording"
        /\ handlers[q].req.tle = handlers[p].req.tle
        /\ handlers[q].req.timestamp_unix = handlers[p].req.timestamp_unix
        /\ q \in lock.readers
        /\ metrics.propagation_count = 1 /\ metrics.error_count = 1

\* ------------------------------------------------------------------------
\* Properties of the core entry points
\* ------------------------------------------------------------------------

\* A direct call of the core has returned.
CoreReturned == pc = "done" /\ endpoint = "core"

\* The TLE of the running call fails parsing: a line of the wrong length, or
\* a field or checksum that does not parse.
ParseFails == tle.len1 # 69 \/ tle.len2 # 69 \/ ~tle.wellformed

\* C13: each of propagate, propagate_trajectory and
\* calculate_visibility_passes, called with a TLE that fails parsing, returns
\* the error TleParseError, and no propagation sample was computed before it.
C13_ParseErrorFirst ==
    (CoreReturned /\ ParseFails) =>
        /\ entry \in {"propagate", "propagate_trajectory",
                      "calculate_visibility_passes"}
        /\ ret = Err("TleParseError")
        /\ attempts = 0
        /\ ephemeris = <<>>

\* The visibility sweep was called with lines of the right length that do not
\* parse, and returned the parse error.
C13_Witness ==
    /\ CoreReturned
    /\ entry = "calculate_visibility_passes"
    /\ tle = MalformedTle
    /\ ret = Err("TleParseError")

\* C14: the core is deterministic and keeps no state from one call to the
\* next: a call returns what every earlier call of the same entry point with
\* the same arguments returned, whatever calls were made in between.
C14_Deterministic ==
    CoreReturned =>
        \A i \in DOMAIN history :
            (history[i].entry = entry /\ history[i].args = CallArgs)
                => history[i].ret = ret

\* A trajectory over two samples returned a second time, a single-point call
\* at one of its timestamps having been made in between.
C14_Witness ==
    /\ CoreReturned
    /\ entry = "propagate_trajectory"
    /\ ret.kind = "Ok"
    /\ end_unix = 1
    /\ Len(history) = 2
    /\ history[1].entry = entry /\ history[1].args = CallArgs
    /\ history[2].entry = "propagate" /\ history[2].args = <<tle, 0>>

\* ------------------------------------------------------------------------
\* Properties of the transitions of the pass finder
\* ------------------------------------------------------------------------

\* The step taken is an iteration of the visibility loop whose sample, at the
\* time the cursor was on, propagated.
SampleTaken ==
    /\ pc = "vis_loop"
    /\ attempts' = attempts + 1
    /\ ephemeris'[<<tle, timestamp>>].ok

\* Elevation and azimuth of that sample: the look angles of its position at
\* its own time.
SampleAngles ==
    calculate_look_angles(ephemeris'[<<tle, timestamp>>].position,
                          ground_station, timestamp)

\* C17: outside a pass, a sample whose elevation is at least the station's
\* threshold starts a pass: AOS is the sample's time, the AOS azimuth its
\* azimuth, the maximum elevation its elevation, TCA its time, and no pass is
\* appended.
C17_PassStart ==
    [][ (SampleTaken /\ ~in_pass
            /\ SampleAngles.elevation >= ground_station.min_elevation_deg)
        => /\ in_pass'
           /\ current_pass_start' = timestamp
           /\ current_pass_start_azimuth' = SampleAngles.azimuth
           /\ max_elevation' = SampleAngles.elevation
           /\ tca_timestamp' = timestamp
           /\ passes' = passes
      ]_vars

\* A second pass has just started, one having been emitted before.
C17_Witness ==
    /\ pc = "vis_loop"
    /\ in_pass
    /\ Len(passes) = 1
    /\ current_pass_start = timestamp - step_seconds
    /\ tca_timestamp = current_pass_start
    /\ current_pass_start > passes[1].los_timestamp

\* The timestamps sampled for the running sweep whose propagation succeeded.
GoodSamples == {k[2] : k \in {x \in DOMAIN ephemeris : x[1] = tle /\ ephemeris[x].ok}}

\* The elevation of the sample at time t.
ElevationAt(t) ==
    calculate_look_angles(Outcome(t).position, ground_station, t).elevation

\* Pass i was pushed at the end of the window, not by a closing sample.
OpenAtWindowEnd(i) == pc = "done" /\ in_pass /\ i = Len(passes)

\* The successful samples of pass i: from its AOS up to, and without, the
\* sample that closed it.
PassSamples(i) ==
    {t \in GoodSamples :
        /\ passes[i].aos_timestamp <= t
        /\ IF OpenAtWindowEnd(i) THEN t <= passes[i].los_timestamp
                                 ELSE t < passes[i].los_timestamp}

\* C18: the maximum elevation of every emitted pass is the largest elevation
\* of its successful samples, and its TCA is the earliest of the samples that
\* have that elevation.
C18_MaxAndTca ==
    pc \in {"vis_loop", "done"} =>
        \A i \in DOMAIN passes :
            /\ passes[i].tca_timestamp \in PassSamples(i)
            /\ ElevationAt(passes[i].tca_timestamp) = passes[i].max_elevation_deg
            /\ \A t \in PassSamples(i) :
                  /\ ElevationAt(t) <= passes[i].max_elevation_deg
                  /\ ElevationAt(t) = passes[i].max_elevation_deg
                        => passes[i].tca_timestamp <= t

\* A pass closed by a sample whose maximum is reached after AOS and again by
\* a later sample.
C18_Witness ==
    \E i \in DOMAIN passes :
        /\ ~OpenAtWindowEnd(i)
        /\ passes[i].aos_timestamp < passes[i].tca_timestamp
        /\ \E t \in PassSamples(i) :
              /\ t > passes[i].tca_timestamp
              /\ ElevationAt(t) = passes[i].max_elevation_deg

\* C19: inside a pass, a sample whose elevation is below the threshold ends
\* the pass: exactly one pass is appended, with LOS the sample's time, AOS,
\* TCA and maximum elevation as accumulated, and duration LOS - AOS.
C19_PassEnd ==
    [][ (SampleTaken /\ in_pass
            /\ SampleAngles.elevation < ground_station.min_elevation_deg)
        => /\ ~in_pass'
           /\ Len(passes') = Len(passes) + 1
           /\ SubSeq(passes', 1, Len(passes)) = passes
           /\ LET pass == passes'[Len(passes')] IN
              /\ pass.los_timestamp = timestamp
              /\ pass.aos_timestamp = current_pass_start
              /\ pass.tca_timestamp = tca_timestamp
              /\ pass.max_elevation_deg = max_elevation
              /\ pass.duration_seconds = pass.los_timestamp - pass.aos_timestamp
      ]_vars

\* A pass of three samples has just been closed by a fourth.
C19_Witness ==
    /\ pc = "vis_loop"
    /\ ~in_pass
    /\ Len(passes) = 1
    /\ passes[1].los_timestamp = timestamp - step_seconds
    /\ passes[1].duration_seconds = 3 * step_seconds
    /\ passes[1].aos_timestamp < passes[1].tca_timestamp

\* C20: the LOS azimuth stored in a pass closed by a sample is the azimuth of
\* that sample: the look angle of its position at its own time.
C20_Original ==
    [][ (SampleTaken /\ in_pass
            /\ SampleAngles.elevation < ground_station.min_elevation_deg)
        => passes'[Len(passes')].los_azimuth_deg = SampleAngles.azimuth
      ]_vars

\* C21: when the loop ends inside a pass, exactly one final pass is appended,
\* with LOS the end of the window, LOS azimuth 0 and duration end - AOS; when
\* it ends outside a pass, nothing is appended.
C21_WindowEnd ==
    [][ (pc = "vis_loop" /\ pc' = "done")
        => IF in_pass
             THEN /\ Len(passes') = Len(passes) + 1
                  /\ SubSeq(passes', 1, Len(passes)) = passes
                  /\ LET pass == passes'[Len(passes')] IN
                     /\ pass.los_timestamp = end_unix
                     /\ pass.los_azimuth_deg = 0
                     /\ pass.aos_timestamp = current_pass_start
                     /\ pass.duration_seconds = end_unix - current_pass_start
             ELSE passes' = passes
      ]_vars

\* A sweep ended inside its second pass, in a window that ends off the grid.
C21_Witness ==
    /\ pc = "done"
    /\ in_pass
    /\ Len(passes) = 2
    /\ passes[2].los_timestamp = end_unix
    /\ passes[2].los_azimuth_deg = 0
    /\ end_unix > timestamp - step_seconds
    /\ passes[2].aos_timestamp < end_unix

\* The sample at time t is above the station's threshold.
AboveAt(t) == ElevationAt(t) >= ground_station.min_elevation_deg

\* The successful samples that take the finder from OUT to IN: above the
\* threshold, with no successful sample before them or the latest one below.
PassStarts ==
    {t \in GoodSamples :
        /\ AboveAt(t)
        /\ ~\E u \in GoodSamples :
              /\ u < t
              /\ AboveAt(u)
              /\ \A v \in GoodSamples : ~(u < v /\ v < t)}

\* C22: a step appends at most one pass, an iteration that leaves the finder
\* in the state it was in appends none, and when the sweep returns the number
\* of passes is the number of transitions from OUT to IN it has taken.
C22_PassCount ==
    [][ /\ Len(passes') <= Len(passes) + 1
        /\ (pc = "vis_loop" /\ attempts' = attempts + 1 /\ in_pass' = in_pass)
              => passes' = passes
        /\ (pc = "vis_loop" /\ pc' = "done")
              => Len(passes') = Cardinality(PassStarts)'
      ]_vars

\* A sweep returned two passes, one closed by a sample and one open at the
\* end of the window, having stayed inside the first pass over a sample.
C22_Witness ==
    /\ pc = "done"
    /\ ret.kind = "Ok"
    /\ Len(passes) = 2
    /\ in_pass
    /\ passes[1].duration_seconds = 2 * step_seconds
\* ------------------------------------------------------------------------
\* Properties of the look angles
\* ------------------------------------------------------------------------

LookTaken == look.divided

\* C23 (as stated): for a station-to-satellite vector shorter than 1 km (two
\* half kilometres) the look-angle computation returns elevation 90 and
\* azimuth 0 and does not divide by the range.
C23_Original ==
    (LookTaken /\ range_squared(range_sez) < 2 * 2)
        => /\ ~look.elevation_nan
           /\ look.elevation_deg = 90
           /\ look.azimuth_deg = Exact(0)
           /\ ~look.divided

\* C24 (as stated): every azimuth the look-angle computation returns, which
\* is what a pass stores as its AOS and LOS azimuth, lies in [0, 360).
C24_Original ==
    LookTaken
        => /\ look.azimuth_deg.h >= 0
           /\ look.azimuth_deg.h = 0 => look.azimuth_deg.eps >= 0
           /\ look.azimuth_deg.h < 360

\* ------------------------------------------------------------------------
\* Properties of the sampling grid
\* ------------------------------------------------------------------------

\* The timestamps at which the running call evaluated the propagator.
Evaluated == {k[2] : k \in {x \in DOMAIN ephemeris : x[1] = tle}}

\* The grid of a window: start + h * k for 0 <= k <= floor((end - start) / h),
\* empty when start > end.
Grid(s, e, h) ==
    IF s <= e THEN {s + h * k : k \in 0..((e - s) \div h)} ELSE {}

\* A sweep of the core that ran to its return.
SweepReturned(name) == CoreReturned /\ entry = name /\ ret.kind = "Ok"

C26_PassInWindow ==
    (SweepReturned("calculate_visibility_passes") /\ start_unix <= end_unix)
        => \A i \in DOMAIN ret.value :
              LET pass == ret.value[i] IN
              /\ start_unix <= pass.aos_timestamp
              /\ pass.aos_timestamp <= pass.tca_timestamp
              /\ pass.tca_timestamp <= pass.los_timestamp
              /\ pass.los_timestamp <= end_unix

C26_Witness ==
    /\ SweepReturned("calculate_visibility_passes")
    /\ Len(ret.value) = 2
    /\ ret.value[1].aos_timestamp = start_unix
    /\ ret.value[1].tca_timestamp > ret.value[1].aos_timestamp
    /\ ret.value[2].tca_timestamp < ret.value[2].los_timestamp
    /\ ret.value[2].los_timestamp = end_unix

\* A time of the form start + 30 * k, k >= 0.
OnGrid(t) == t >= start_unix /\ (t - start_unix) % vis_step_seconds = 0

\* C27: the times of the returned passes are aligned to the grid.  AOS and TCA
\* of every pass are of the form start + 30 * k; for a pass closed by a sample
\* below the threshold LOS is of that form too and the duration is a positive
\* multiple of 30 seconds; only the pass pushed at the end of the window may
\* have an LOS off the grid.
C27_GridAligned ==
    SweepReturned("calculate_visibility_passes")
        => \A i \in DOMAIN passes :
              /\ OnGrid(passes[i].aos_timestamp)
              /\ OnGrid(passes[i].tca_timestamp)
              /\ ~OpenAtWindowEnd(i)
                    => /\ OnGrid(passes[i].los_timestamp)
                       /\ passes[i].duration_seconds > 0
                       /\ passes[i].duration_seconds % vis_step_seconds = 0

C27_Witness ==
    /\ SweepReturned("calculate_visibility_passes")
    /\ Len(passes) = 2
    /\ passes[1].duration_seconds = vis_step_seconds
    /\ OpenAtWindowEnd(2)
    /\ ~OnGrid(passes[2].los_timestamp)

\* A sample of the visibility sweep whose propagation fails.
SampleFailed ==
    /\ pc = "vis_loop"
    /\ attempts' = attempts + 1
    /\ ~ephemeris'[<<tle, timestamp>>].ok

\* C28: a sample of the visibility sweep whose propagation fails changes
\* nothing but the time cursor: the IN/OUT state, the recorded AOS, AOS
\* azimuth, maximum elevation, TCA and the list of emitted passes are as they
\* were, and the cursor moves on by 30 seconds.
C28_FailedSampleFrame ==
    [][ SampleFailed
          => /\ in_pass' = in_pass
             /\ current_pass_start' = current_pass_start
             /\ current_pass_start_azimuth' = current_pass_start_azimuth
             /\ max_elevation' = max_elevation
             /\ tca_timestamp' = tca_timestamp
             /\ passes' = passes
             /\ timestamp' = timestamp + vis_step_seconds
             /\ pc' = pc ]_vars

\* A pass stayed open across a failed sample: it is returned with a sample
\* missing between its AOS and its LOS.
C28_Witness ==
    /\ SweepReturned("calculate_visibility_passes")
    /\ Len(passes) = 1
    /\ ~OpenAtWindowEnd(1)
    /\ \E t \in Evaluated :
          /\ passes[1].aos_timestamp < t
          /\ t < passes[1].los_timestamp
          /\ ~Outcome(t).ok

\* ------------------------------------------------------------------------
\* Properties of the lock around AppState
\* ------------------------------------------------------------------------

\* Task p holds the lock.
Holds(p) == lock.writer = p \/ p \in lock.readers

\* Some handler was started and has not returned its response.
Busy ==
    \/ \E p \in Procs : handlers[p].pc \notin {"idle", "done"}
    \/ pc \in {"batch_loop", "batch_adding"}

\* C29: a handler holds the lock around AppState only in the statement that
\* updates the metrics: never while it calls the core and never while it asks
\* for the lock.  So whenever a handler is under way some handler can take a
\* step, and when every task that can take a step eventually takes one, each
\* handler that was started returns its response with the lock released.
C29_LockDiscipline ==
    /\ [](\A p \in Procs :
             Holds(p) => handlers[p].pc \in {"counting", "erroring", "recording"})
    /\ [](Holds(BatchTask) => pc = "batch_adding")
    /\ [](Busy => ENABLED ((\E p \in Procs : handler_step(p)) \/ batch_step))
    /\ \A p \in Procs :
          (handlers[p].pc # "idle") ~> (handlers[p].pc = "done" /\ ~Holds(p))
    /\ (pc = "batch_loop") ~> (pc = "done" /\ ~Holds(BatchTask))

\* A handler updates the metrics under the write lock while a gRPC handler
\* and the batch handler, their core calls done, wait for the lock.
C29_Witness ==
    /\ \E p, q \in Procs :
          /\ handlers[p].pc = "counting" /\ lock.writer = p
          /\ handlers[q].pc = "record" /\ handlers[q].core_calls = 1
    /\ pc = "batch_loop" /\ batch_index = Len(batch_req) /\ batch_index = 2

\* ------------------------------------------------------------------------
\* Properties of the gRPC visibility response
\* ------------------------------------------------------------------------

\* A successful CalculateVisibility response.
VisibilityResponded ==
    pc = "done" /\ endpoint = "grpc" /\ "passes" \in DOMAIN response /\ response.success

\* C30 (as stated): every pass of a successful gRPC CalculateVisibility
\* response lies inside the requested window [start, end], has
\* AOS <= time of maximum elevation <= LOS, and duration = LOS - AOS.
C30_Original ==
    VisibilityResponded
        => \A i \in DOMAIN response.passes :
              LET pass == response.passes[i] IN
              /\ start_unix <= pass.aos_timestamp
              /\ pass.los_timestamp <= end_unix
              /\ pass.aos_timestamp <= pass.max_elevation_timestamp
              /\ pass.max_elevation_timestamp <= pass.los_timestamp
              /\ pass.duration_seconds = pass.los_timestamp - pass.aos_timestamp

====
